---- MODULE Spec2Model ----
(***************************************************************************)
(* Cart and order routers of the northfishclient backend.                  *)
(*                                                                         *)
(* The database holds the tables cart and orders (models.py).  Every HTTP  *)
(* request is served by its own handler invocation with its own session;   *)
(* a handler reads with db.query(...) and writes with db.commit(), so a    *)
(* handler is a sequence of database steps and the steps of different      *)
(* requests interleave (Spec).  SpecSerial runs one request at a time.     *)
(* Prices are kept in hundredths (10.00 is 1000).                          *)
(***************************************************************************)
EXTENDS Integers, FiniteSets

VARIABLES cart, orders, nextCartId, nextOrderId, req

vars == <<cart, orders, nextCartId, nextOrderId, req>>

\* ---------------------------------------------------------------- bounds
\* Number of HTTP requests served in one behaviour.
NumRequests == 3

Requests == 1..NumRequests

\* ------------------------------------------------------------- constants
MAX_QUANTITY == 99

\* The user id every handler of routers/ works for.
USER_ID == 1

\* A second row of the users table (used by SpecForeign only).
OtherUsers == {USER_ID + 1}

\* The products table: read-only in these routers.
Products == {[id |-> 1, price |-> 1000], [id |-> 2, price |-> 550]}

\* Request inputs.
ProductIdInputs == {1, 2, 3}
AddQuantityInputs == {0, 1, 50, 60, 100}
UpdateQuantityInputs == {0, 1, 99, 100}
CartIdInputs == 1..NumRequests

\* ------------------------------------------------------------ data model
\* None for a row (first() found nothing) and for an order id.
NoItem == [id |-> 0, user_id |-> 0, product_id |-> 0, quantity |-> 0]

NewCartRow(id, user_id, product_id, quantity) ==
    [id |-> id, user_id |-> user_id, product_id |-> product_id, quantity |-> quantity]

\* Order(user_id=..., total_price=...): status takes the column default.
NewOrderRow(id, user_id, total_price) ==
    [id |-> id, user_id |-> user_id, total_price |-> total_price, status |-> "pending"]

\* A request slot: the handler's arguments, its locals and its response.
IdleRequest ==
    [op |-> "none", pc |-> "idle", cart_id |-> 0, product_id |-> 0, quantity |-> 0,
     item |-> NoItem, cart_items |-> {}, order |-> 0, status |-> 0, body |-> {}]

\* The handler returned (or raised): its frame is gone, the response stays.
Finished(op, status, body) ==
    [IdleRequest EXCEPT !.op = op, !.pc = "done", !.status = status, !.body = body]

Ids(rows) == {row.id : row \in rows}

\* ------------------------------------------------------------ pure parts
\* CartItemCreate: product_id gt 0, quantity gt 0 and le MAX_QUANTITY.
CartItemCreateValid(product_id, quantity) ==
    /\ product_id > 0
    /\ quantity > 0
    /\ quantity <= MAX_QUANTITY

ProductExists(product_id) == \E p \in Products : p.id = product_id

Price(product_id) == (CHOOSE p \in Products : p.id = product_id).price

\* Cart rows of one user for one product.
CartRowsFor(rows, user_id, product_id) ==
    {row \in rows : row.user_id = user_id /\ row.product_id = product_id}

\* Cart rows with the given id that belong to the user.
OwnedRows(rows, cart_id, user_id) ==
    {row \in rows : row.id = cart_id /\ row.user_id = user_id}

\* get_cart's query: the user's rows.
CartOf(rows, user_id) == {row \in rows : row.user_id = user_id}

\* The bound checks of add_to_cart left out.
ExceedsMaxNever(quantity) == FALSE

ExceedsMax(quantity) == quantity > MAX_QUANTITY

\* The merged quantity capped at the maximum instead of checked.
MergedQuantityClamped(existing, quantity) ==
    IF existing + quantity > MAX_QUANTITY THEN MAX_QUANTITY ELSE existing + quantity

\* The requested quantity stored instead of the sum.
MergedQuantityOverwrite(existing, quantity) == quantity

MergedQuantity(existing, quantity) == existing + quantity

\* The lower bound check of update_cart_quantity left out.
UpdateQuantityValidNoLowerBound(quantity) == ~(quantity > MAX_QUANTITY)

UpdateQuantityValid(quantity) == ~(quantity < 1) /\ ~(quantity > MAX_QUANTITY)

\* create_order's query: db.query(Cart).all()
OrderCartItems(rows) == rows

\* The empty check of create_order left out.
CartEmptyNever(items) == FALSE

CartEmpty(items) == items = {}

\* The total summed over prices alone, the quantities forgotten.
RECURSIVE TotalPriceNoQuantity(_)
TotalPriceNoQuantity(items) ==
    IF items = {} THEN 0
    ELSE LET item == CHOOSE i \in items : TRUE
         IN  Price(item.product_id) + TotalPriceNoQuantity(items \ {item})

RECURSIVE TotalPrice(_)
TotalPrice(items) ==
    IF items = {} THEN 0
    ELSE LET item == CHOOSE i \in items : TRUE
         IN  Price(item.product_id) * item.quantity + TotalPrice(items \ {item})

\* db.query(Cart).delete(): what is left of the table.
ClearedCart(rows) == {}

\* ------------------------------------------------------------------ Init
Init ==
    /\ cart = {}
    /\ orders = {}
    /\ nextCartId = 1
    /\ nextOrderId = 1
    /\ req = [r \in Requests |-> IdleRequest]

\* Requests are numbered in the order in which their handlers start.
CanStart(r) ==
    /\ req[r].pc = "idle"
    /\ IF r = 1 THEN TRUE ELSE req[r - 1].pc # "idle"

InFlight(r) == req[r].pc \in {"commit", "clear"}

\* ------------------------------------------------------------ add_to_cart
\* Validation, product lookup, query of the existing row and the merge check.
AddToCartQuery(r, product_id, quantity) ==
    /\ CanStart(r)
    /\ UNCHANGED <<cart, orders, nextCartId, nextOrderId>>
    /\ IF ~CartItemCreateValid(product_id, quantity)
       THEN req' = [req EXCEPT ![r] = Finished("add", 422, {})]
       ELSE IF ExceedsMax(quantity)
       THEN req' = [req EXCEPT ![r] = Finished("add", 400, {})]
       ELSE IF ~ProductExists(product_id)
       THEN req' = [req EXCEPT ![r] = Finished("add", 404, {})]
       ELSE \E existing_item \in
                 IF CartRowsFor(cart, USER_ID, product_id) = {}
                 THEN {NoItem} ELSE CartRowsFor(cart, USER_ID, product_id) :
              IF /\ existing_item # NoItem
                 /\ ExceedsMax(MergedQuantity(existing_item.quantity, quantity))
              THEN req' = [req EXCEPT ![r] = Finished("add", 400, {})]
              ELSE req' = [req EXCEPT ![r] =
                       [IdleRequest EXCEPT !.op = "add", !.pc = "commit",
                                           !.product_id = product_id,
                                           !.quantity = quantity,
                                           !.item = existing_item]]

\* The UPDATE or INSERT of add_to_cart and its commit.
AddToCartCommit(r) ==
    /\ req[r].op = "add"
    /\ req[r].pc = "commit"
    /\ UNCHANGED <<orders, nextOrderId>>
    /\ IF req[r].item # NoItem
       THEN LET new_quantity == MergedQuantity(req[r].item.quantity, req[r].quantity)
            IN  IF \E row \in cart : row.id = req[r].item.id
                THEN /\ cart' = {IF row.id = req[r].item.id
                                 THEN [row EXCEPT !.quantity = new_quantity]
                                 ELSE row : row \in cart}
                     /\ req' = [req EXCEPT ![r] = Finished("add", 200, {})]
                     /\ UNCHANGED nextCartId
                ELSE \* the row was deleted meanwhile: the UPDATE matches no row
                     /\ req' = [req EXCEPT ![r] = Finished("add", 500, {})]
                     /\ UNCHANGED <<cart, nextCartId>>
       ELSE /\ cart' = cart \cup
                  {NewCartRow(nextCartId, USER_ID, req[r].product_id, req[r].quantity)}
            /\ nextCartId' = nextCartId + 1
            /\ req' = [req EXCEPT ![r] = Finished("add", 200, {})]

\* --------------------------------------------------------------- get_cart
GetCart(r) ==
    /\ CanStart(r)
    /\ req' = [req EXCEPT ![r] = Finished("list", 200, CartOf(cart, USER_ID))]
    /\ UNCHANGED <<cart, orders, nextCartId, nextOrderId>>

\* --------------------------------------------------- update_cart_quantity
UpdateCartQuantityQuery(r, cart_id, quantity) ==
    /\ CanStart(r)
    /\ UNCHANGED <<cart, orders, nextCartId, nextOrderId>>
    /\ IF ~UpdateQuantityValid(quantity)
       THEN req' = [req EXCEPT ![r] = Finished("update", 400, {})]
       ELSE IF OwnedRows(cart, cart_id, USER_ID) = {}
       THEN req' = [req EXCEPT ![r] = Finished("update", 404, {})]
       ELSE \E cart_item \in OwnedRows(cart, cart_id, USER_ID) :
              req' = [req EXCEPT ![r] =
                       [IdleRequest EXCEPT !.op = "update", !.pc = "commit",
                                           !.cart_id = cart_id,
                                           !.quantity = quantity,
                                           !.item = cart_item]]

UpdateCartQuantityCommit(r) ==
    /\ req[r].op = "update"
    /\ req[r].pc = "commit"
    /\ UNCHANGED <<orders, nextCartId, nextOrderId>>
    /\ IF \E row \in cart : row.id = req[r].item.id
       THEN /\ cart' = {IF row.id = req[r].item.id
                        THEN [row EXCEPT !.quantity = req[r].quantity]
                        ELSE row : row \in cart}
            /\ req' = [req EXCEPT ![r] = Finished("update", 200, {})]
       ELSE /\ req' = [req EXCEPT ![r] = Finished("update", 500, {})]
            /\ UNCHANGED cart

\* ------------------------------------------------------- remove_from_cart
RemoveFromCartQuery(r, cart_id) ==
    /\ CanStart(r)
    /\ UNCHANGED <<cart, orders, nextCartId, nextOrderId>>
    /\ IF OwnedRows(cart, cart_id, USER_ID) = {}
       THEN req' = [req EXCEPT ![r] = Finished("remove", 404, {})]
       ELSE \E cart_item \in OwnedRows(cart, cart_id, USER_ID) :
              req' = [req EXCEPT ![r] =
                       [IdleRequest EXCEPT !.op = "remove", !.pc = "commit",
                                           !.cart_id = cart_id,
                                           !.item = cart_item]]

RemoveFromCartCommit(r) ==
    /\ req[r].op = "remove"
    /\ req[r].pc = "commit"
    /\ cart' = {row \in cart : row.id # req[r].item.id}
    /\ req' = [req EXCEPT ![r] = Finished("remove", 200, {})]
    /\ UNCHANGED <<orders, nextCartId, nextOrderId>>

\* ----------------------------------------------------------- create_order
\* The cart query, the empty check and the total.
CreateOrderQuery(r) ==
    /\ CanStart(r)
    /\ UNCHANGED <<cart, orders, nextCartId, nextOrderId>>
    /\ LET cart_items == OrderCartItems(cart)
       IN  IF CartEmpty(cart_items)
           THEN req' = [req EXCEPT ![r] = Finished("order", 400, {})]
           ELSE req' = [req EXCEPT ![r] =
                    [IdleRequest EXCEPT !.op = "order", !.pc = "commit",
                                        !.cart_items = cart_items]]

\* db.add(order); db.commit(); db.refresh(order)
CreateOrderCommit(r) ==
    /\ req[r].op = "order"
    /\ req[r].pc = "commit"
    /\ orders' = orders \cup
          {NewOrderRow(nextOrderId, USER_ID, TotalPrice(req[r].cart_items))}
    /\ nextOrderId' = nextOrderId + 1
    /\ req' = [req EXCEPT ![r].pc = "clear", ![r].order = nextOrderId]
    /\ UNCHANGED <<cart, nextCartId>>

\* db.query(Cart).delete(); db.commit(); return order
CreateOrderClear(r) ==
    /\ req[r].op = "order"
    /\ req[r].pc = "clear"
    /\ cart' = ClearedCart(cart)
    /\ req' = [req EXCEPT ![r] = Finished("order", 200, {})]
    /\ UNCHANGED <<orders, nextCartId, nextOrderId>>

\* A database call of the handler raises: nothing of the open transaction is
\* stored, nothing is caught, the request ends with a server error.
DbError(r) ==
    /\ InFlight(r)
    /\ req' = [req EXCEPT ![r] = Finished(req[r].op, 500, {})]
    /\ UNCHANGED <<cart, orders, nextCartId, nextOrderId>>

\* ------------------------------------------------------------------ Next
Next ==
    \E r \in Requests :
        \/ \E product_id \in ProductIdInputs, quantity \in AddQuantityInputs :
              AddToCartQuery(r, product_id, quantity)
        \/ AddToCartCommit(r)
        \/ GetCart(r)
        \/ \E cart_id \in CartIdInputs, quantity \in UpdateQuantityInputs :
              UpdateCartQuantityQuery(r, cart_id, quantity)
        \/ UpdateCartQuantityCommit(r)
        \/ \E cart_id \in CartIdInputs : RemoveFromCartQuery(r, cart_id)
        \/ RemoveFromCartCommit(r)
        \/ CreateOrderQuery(r)
        \/ CreateOrderCommit(r)
        \/ CreateOrderClear(r)
        \/ DbError(r)

Spec == Init /\ [][Next]_vars

\* One request at a time: a handler starts only when no other is running.
NoneInFlight == \A r \in Requests : ~InFlight(r)

NextSerial ==
    \E r \in Requests :
        \/ /\ NoneInFlight
           /\ \E product_id \in ProductIdInputs, quantity \in AddQuantityInputs :
                 AddToCartQuery(r, product_id, quantity)
        \/ AddToCartCommit(r)
        \/ NoneInFlight /\ GetCart(r)
        \/ /\ NoneInFlight
           /\ \E cart_id \in CartIdInputs, quantity \in UpdateQuantityInputs :
                 UpdateCartQuantityQuery(r, cart_id, quantity)
        \/ UpdateCartQuantityCommit(r)
        \/ NoneInFlight /\ \E cart_id \in CartIdInputs : RemoveFromCartQuery(r, cart_id)
        \/ RemoveFromCartCommit(r)
        \/ NoneInFlight /\ CreateOrderQuery(r)
        \/ CreateOrderCommit(r)
        \/ CreateOrderClear(r)
        \/ DbError(r)

SpecSerial == Init /\ [][NextSerial]_vars

\* The cart table already holds a line of another user when the requests start.
InitForeign ==
    /\ \E user_id \in OtherUsers, p \in Products :
          cart = {NewCartRow(1, user_id, p.id, 2)}
    /\ orders = {}
    /\ nextCartId = 2
    /\ nextOrderId = 1
    /\ req = [r \in Requests |-> IdleRequest]

SpecForeign == InitForeign /\ [][NextSerial]_vars

\* ================================================================ claims
\* Steps of request r, told by its position before and after.
Starts(r, op) == req[r].pc = "idle" /\ req'[r].op = op
Ends(r, op) == req[r].pc # "done" /\ req'[r].op = op /\ req'[r].pc = "done"
Rejected(r, status) ==
    /\ req'[r].pc = "done"
    /\ req'[r].status = status
    /\ cart' = cart
    /\ orders' = orders

\* Sum of price times quantity over cart lines, written out on its own.
RECURSIVE SumOfLines(_)
SumOfLines(rows) ==
    IF rows = {} THEN 0
    ELSE LET row == CHOOSE x \in rows : TRUE
             product == CHOOSE p \in Products : p.id = row.product_id
         IN  product.price * row.quantity + SumOfLines(rows \ {row})

\* C1: a checkout that ends after having persisted its Order has cleared the
\* cart lines the Order was made from; one that persisted no Order left the
\* cart as it was.
C1_CheckoutAllOrNothing ==
    [][\A r \in Requests :
          Ends(r, "order") =>
             IF req[r].order # 0
             THEN Ids(req[r].cart_items) \cap Ids(cart') = {}
             ELSE cart' = cart /\ orders' = orders]_vars

\* C2: every stored cart line has a quantity in 1..99.
C2_QuantityInRange ==
    \A row \in cart : row.quantity >= 1 /\ row.quantity <= 99

C2_Witness ==
    /\ \E row \in cart : row.quantity > 60
    /\ \E r \in Requests : req[r].op = "add" /\ req[r].status = 200
    /\ \E r \in Requests : req[r].op \in {"add", "update"} /\ req[r].status = 400

\* C3: at most one cart line per (user, product).
C3_OneLinePerUserProduct ==
    \A a, b \in cart :
        a.user_id = b.user_id /\ a.product_id = b.product_id => a = b

\* C4: a checkout that finds the cart non-empty goes on, stores exactly one new
\* Order, pending, of the user, with total the sum of price times quantity over
\* the cart lines, and on its return the user's cart lists no line.
C4_CheckoutCreatesOneOrder ==
    [][\A r \in Requests :
          /\ Starts(r, "order") /\ CartOf(cart, USER_ID) # {} =>
                req'[r].pc = "commit" /\ cart' = cart /\ orders' = orders
          /\ req[r].op = "order" /\ req[r].pc = "commit" /\ req'[r].pc = "clear" =>
                /\ cart' = cart
                /\ \E o \in orders' :
                      /\ o \notin orders
                      /\ orders' = orders \cup {o}
                      /\ o.status = "pending"
                      /\ o.user_id = USER_ID
                      /\ o.total_price = SumOfLines(CartOf(cart, USER_ID))
          /\ req[r].op = "order" /\ req[r].pc = "clear" /\ req'[r].status = 200 =>
                CartOf(cart', USER_ID) = {} /\ orders' = orders]_vars

C4_Witness ==
    /\ \E r \in Requests : req[r].op = "order" /\ req[r].status = 200
    /\ \E o \in orders : o.total_price = 1550 /\ o.status = "pending"
    /\ Cardinality(orders) = 1
    /\ CartOf(cart, USER_ID) = {}

\* C5: a checkout on an empty cart is rejected with 400 and changes neither the
\* orders nor the cart lines.
C5_EmptyCartCheckoutRejected ==
    [][\A r \in Requests :
          Starts(r, "order") /\ CartOf(cart, USER_ID) = {} => Rejected(r, 400)]_vars

C5_Witness ==
    /\ \E r \in Requests : req[r].op = "order" /\ req[r].status = 400
    /\ \E r \in Requests : req[r].op = "add" /\ req[r].status = 200
    /\ orders = {}

\* C6: adding q2 in 1..99 of a product whose line holds q1 with q1 + q2 > 99 is
\* rejected with 400 and leaves every cart line as it was.
C6_MergeOverflowRejected ==
    [][\A r \in Requests, product_id \in ProductIdInputs, q2 \in AddQuantityInputs :
          /\ AddToCartQuery(r, product_id, q2)
          /\ q2 >= 1 /\ q2 <= 99
          /\ \E row \in CartRowsFor(cart, USER_ID, product_id) : row.quantity + q2 > 99
          => Rejected(r, 400)]_vars

C6_Witness ==
    /\ \E r \in Requests : req[r].op = "add" /\ req[r].status = 400
    /\ \E row \in cart : row.quantity = 50
    /\ Cardinality(cart) = 1

\* C7: adding q of an existing product goes on to the write when the product has
\* no line or its line holds q1 with q1 + q <= 99; the write then leaves exactly
\* one line for the product, holding q, respectively q1 + q, and no other line
\* changes.
C7_AddMergesQuantities ==
    [][\A r \in Requests :
          /\ \A product_id \in ProductIdInputs, q \in AddQuantityInputs :
                /\ AddToCartQuery(r, product_id, q)
                /\ q >= 1 /\ q <= 99
                /\ \E p \in Products : p.id = product_id
                /\ \A row \in CartRowsFor(cart, USER_ID, product_id) :
                      row.quantity + q <= 99
                => /\ req'[r].pc = "commit"
                   /\ req'[r].product_id = product_id
                   /\ req'[r].quantity = q
                   /\ cart' = cart
          /\ AddToCartCommit(r) =>
                LET before == CartRowsFor(cart, USER_ID, req[r].product_id)
                    after == CartRowsFor(cart', USER_ID, req[r].product_id)
                IN  /\ req'[r].status = 200
                    /\ Cardinality(after) = 1
                    /\ before = {} => \A row \in after : row.quantity = req[r].quantity
                    /\ \A old \in before : \A row \in after :
                          row.quantity = old.quantity + req[r].quantity
                    /\ cart \ before = cart' \ after]_vars

C7_Witness ==
    /\ cart = {NewCartRow(1, USER_ID, 1, 51)}
    /\ \A r \in {1, 2} : req[r].op = "add" /\ req[r].status = 200

\* C8: an update with a quantity below 1 or above 99 is rejected with 400; with
\* a quantity in 1..99 and no line of that id owned by the user it is rejected
\* with 404; otherwise it goes on and its write sets that line's quantity to the
\* given value and leaves all other lines as they were.
C8_UpdateQuantity ==
    [][\A r \in Requests :
          /\ \A cart_id \in CartIdInputs, q \in UpdateQuantityInputs :
                UpdateCartQuantityQuery(r, cart_id, q) =>
                   IF q < 1 \/ q > 99 THEN Rejected(r, 400)
                   ELSE IF ~\E row \in cart : row.id = cart_id /\ row.user_id = USER_ID
                   THEN Rejected(r, 404)
                   ELSE /\ req'[r].pc = "commit"
                        /\ req'[r].cart_id = cart_id
                        /\ req'[r].quantity = q
                        /\ cart' = cart
          /\ UpdateCartQuantityCommit(r) =>
                /\ req'[r].status = 200
                /\ cart' = {IF row.id = req[r].cart_id
                            THEN NewCartRow(row.id, row.user_id, row.product_id,
                                            req[r].quantity)
                            ELSE row : row \in cart}]_vars

C8_Witness ==
    /\ \E r \in Requests : req[r].op = "update" /\ req[r].status = 200
    /\ \E r \in Requests : req[r].op = "update" /\ req[r].status = 400
    /\ \E row \in cart : row.quantity = 99

C10_NoTwoOrdersFromSameLines ==
    \A r1, r2 \in Requests :
        /\ r1 # r2
        /\ req[r1].order # 0
        /\ req[r2].order # 0
        => Ids(req[r1].cart_items) \cap Ids(req[r2].cart_items) = {}

====
